---- MODULE Spec2Model ----
(***************************************************************************)
(* astrorank: the rank/comment store of a reviewing session                *)
(* (astrorank/utils.py, astrorank/astrorank.py) and the secondary-image    *)
(* fetch workers, as a state machine.                                      *)
(*                                                                         *)
(* Texts are TLA+ strings; the conversions Python applies to them (strip,  *)
(* str, int, split on tab, str.replace on a path) are modelled by what     *)
(* they do on the texts of the model.  A line of a file is the sequence of *)
(* its tab-separated fields; a path is the sequence of its pieces, with    *)
(* ".txt" and "/" pieces of their own.                                     *)
(***************************************************************************)
EXTENDS Integers, Sequences, FiniteSets, TLC

VARIABLES
    jpg_files,          \* self.jpg_files (the catalog)
    output_file,        \* self.output_file (the -o argument)
    rank_config,        \* self.rank_config (the "ranks" section)
    secondary_enabled,  \* self.secondary_enabled
    dirs,               \* the directories that exist on disk
    fs,                 \* the files on disk: path -> [exists, lines]
    rankings,           \* self.rankings
    comments,           \* self.comments
    current_index,      \* self.current_index (0-based, as in the code)
    save_counter,       \* self.save_counter
    secondary_images,   \* self.secondary_images
    dual_view_active,   \* self.dual_view_active
    downloading,        \* self.downloading
    workers,            \* the DownloadWorker threads in flight
    secondary_dir,      \* the files of self.secondary_output_dir
    phase,              \* "running" | "closed"
    unsaved,            \* history: accepted submissions since the last write of the rankings file
    last,               \* history: the last operation and its outcome
    data,               \* apply_asinh_scaling: the layer it is given
    scaled              \* apply_asinh_scaling: what it returned

\* What no handler of the session changes: the configuration and the layer
\* of the stretch.
config_vars == <<jpg_files, output_file, rank_config, secondary_enabled, dirs, data, scaled>>
session_vars == <<fs, rankings, comments, current_index, save_counter, secondary_images,
                  dual_view_active, downloading, workers, secondary_dir, phase, unsaved,
                  last>>
vars == <<jpg_files, output_file, rank_config, secondary_enabled, dirs, fs, rankings,
          comments, current_index, save_counter, secondary_images,
          dual_view_active, downloading, workers, secondary_dir, phase, unsaved, last,
          data, scaled>>

(***************************************************************************)
(* Program constants                                                       *)
(***************************************************************************)
BatchSize == 10
DefaultMinRank == 0
DefaultMaxRank == 3

(***************************************************************************)
(* Bounds of the model                                                     *)
(***************************************************************************)
\* Fetch workers in flight at a time.
MaxWorkers == 2

(***************************************************************************)
(* The catalog: get_jpg_files returns the *.jpg names of the directory,    *)
(* sorted.                                                                 *)
(***************************************************************************)
StoreCatalog == <<"img_10.5_-20.25.jpg", "plain.jpg">>
FetchCatalog == <<"a_10.5_-20.25.jpg", "b_30.0_40.0.jpg", "plain.jpg">>

(***************************************************************************)
(* Rank values.  A rank is an int or, under a custom configuration, any    *)
(* JSON value; the model has ints 0..9 and strings.                        *)
(***************************************************************************)
IntRank(n) == [type |-> "int", i |-> n, s |-> ""]
StrRank(t) == [type |-> "str", i |-> 0, s |-> t]
None == [type |-> "none", i |-> 0, s |-> ""]

Digits == <<"0", "1", "2", "3", "4", "5", "6", "7", "8", "9">>

\* str.lstrip / str.rstrip / str.strip on the texts of the model that
\* begin or end with whitespace.
LStripStr(t) ==
    CASE t = " 1" -> "1"
      [] t = " " -> ""
      [] t = " note " -> "note "
      [] t = " note" -> "note"
      [] OTHER -> t

RStripStr(t) ==
    CASE t = "note " -> "note"
      [] t = " " -> ""
      [] t = " note " -> " note"
      [] OTHER -> t

StripStr(t) == LStripStr(RStripStr(t))

\* f"{rank}": the text of a rank value.
PyStr(v) == IF v.type = "int" THEN Digits[v.i + 1] ELSE v.s

\* int(text): [ok, i]; ok = FALSE stands for ValueError.
PyInt(t) ==
    LET u == StripStr(t)
    IN  IF \E n \in 0..9 : Digits[n + 1] = u
        THEN [ok |-> TRUE, i |-> CHOOSE n \in 0..9 : Digits[n + 1] = u]
        ELSE [ok |-> FALSE, i |-> 0]

(***************************************************************************)
(* Rank configurations                                                     *)
(***************************************************************************)
\* load_config's default "ranks" section.
DefaultRanks ==
    ("0" :> IntRank(0)) @@ ("1" :> IntRank(1)) @@ ("2" :> IntRank(2)) @@
    ("3" :> IntRank(3)) @@ ("backtick" :> IntRank(0))

\* The example of parse_rank_config's docstring: a key whose name is not
\* the text of its value.
KeyedRanks == ("0" :> IntRank(0)) @@ ("p" :> IntRank(1)) @@ ("backtick" :> IntRank(0))

\* A one-key integer configuration.
IntRanks == ("1" :> IntRank(1))

\* A custom enumeration of non-integer values.
CustomRanks == ("g" :> StrRank("good")) @@ ("b" :> StrRank("bad"))

\* An empty "ranks" section: is_valid_rank falls back to the numeric range.
EmptyRanks == [k \in {} |-> None]

\* What the user may have typed into rank_input.
InputTexts == {"", "1", "g"}

\* What the user may have typed into the comment dialog.
DialogTexts == {"", " note "}

(***************************************************************************)
(* Paths                                                                   *)
(***************************************************************************)
DefaultOutput == <<"rankings", ".txt">>
NoTxtOutput == <<"rankings", ".dat">>
TxtDirOutput == <<"run", ".txt", "/", "rankings", ".txt">>

\* str.replace('.txt', '_comments.txt'): every occurrence.
ReplaceTxt(p) == [k \in DOMAIN p |-> IF p[k] = ".txt" THEN "_comments.txt" ELSE p[k]]

LastSlash(p) ==
    IF \E k \in DOMAIN p : p[k] = "/"
    THEN CHOOSE k \in DOMAIN p : p[k] = "/" /\ \A j \in DOMAIN p : p[j] = "/" => j <= k
    ELSE 0

\* Path.parent and Path.name
Parent(p) == SubSeq(p, 1, LastSlash(p))
Name(p) == SubSeq(p, LastSlash(p) + 1, Len(p))

\* save_rankings: comments_file = output_file.replace('.txt', '_comments.txt')
SaveCommentsFile(out) == ReplaceTxt(out)

\* _load_comments: output_file.parent / output_file.name.replace('.txt', '_comments.txt')
LoadCommentsFile(out) == Parent(out) \o ReplaceTxt(Name(out))

\* The files a session on output file `out` reads or writes.
SessionPaths(out) == {out, SaveCommentsFile(out), LoadCommentsFile(out)}

NoFile == [exists |-> FALSE, lines |-> <<>>]
File(lines) == [exists |-> TRUE, lines |-> lines]

\* open(path, 'w') raises when the directory of path does not exist.
CanWrite(p) == Parent(p) \in dirs

(***************************************************************************)
(* utils.py: save_rankings                                                 *)
(***************************************************************************)
RankField(rk, filename) ==
    IF filename \in DOMAIN rk THEN PyStr(rk[filename]) ELSE ""

\* comments.get(filename, "")
CommentField(cm, filename) ==
    IF filename \in DOMAIN cm THEN cm[filename] ELSE ""

\* A save that writes a line for the ranked identifiers only.
RankingsLinesRankedOnly(rk, files) ==
    LET ranked == SelectSeq(files, LAMBDA x : x \in DOMAIN rk)
    IN  [k \in DOMAIN ranked |-> <<ranked[k], RankField(rk, ranked[k])>>]

RankingsLines(rk, files) ==
    [k \in DOMAIN files |-> <<files[k], RankField(rk, files[k])>>]

CommentsLines(rk, files, cm) ==
    [k \in DOMAIN files |->
        <<files[k], RankField(rk, files[k]), CommentField(cm, files[k])>>]

\* A save_rankings that opens its two files for appending.
save_rankings_appending(f, out, rk, files, cm) ==
    LET f1 == IF CanWrite(out)
              THEN [f EXCEPT ![out] = File(@.lines \o RankingsLines(rk, files))]
              ELSE f
        cfile == SaveCommentsFile(out)
    IN  IF CanWrite(cfile)
        THEN [f1 EXCEPT ![cfile] = File(@.lines \o CommentsLines(rk, files, cm))]
        ELSE f1

\* The two writes of save_rankings, each in its own try/except: a write
\* that cannot open its file is reported and leaves the disk as it is.
save_rankings(f, out, rk, files, cm) ==
    LET f1 == IF CanWrite(out)
              THEN [f EXCEPT ![out] = File(RankingsLines(rk, files))]
              ELSE f
        cfile == SaveCommentsFile(out)
    IN  IF CanWrite(cfile)
        THEN [f1 EXCEPT ![cfile] = File(CommentsLines(rk, files, cm))]
        ELSE f1

(***************************************************************************)
(* utils.py: load_rankings; astrorank.py: _load_comments                   *)
(***************************************************************************)
IsBlank(t) == StripStr(t) = ""

RECURSIVE DropLeadingBlank(_)
DropLeadingBlank(fields) ==
    IF fields = <<>> THEN <<>>
    ELSE IF IsBlank(Head(fields)) THEN DropLeadingBlank(Tail(fields))
    ELSE fields

RECURSIVE DropTrailingBlank(_)
DropTrailingBlank(fields) ==
    IF fields = <<>> THEN <<>>
    ELSE IF IsBlank(fields[Len(fields)])
         THEN DropTrailingBlank(SubSeq(fields, 1, Len(fields) - 1))
    ELSE fields

\* line.strip() followed by split('\t'), on the fields of the line: tabs
\* are whitespace, so blank fields at either end go with them.
StripLine(fields) ==
    LET g == DropTrailingBlank(DropLeadingBlank(fields))
    IN  IF g = <<>> THEN <<>>
        ELSE LET h == [g EXCEPT ![1] = LStripStr(g[1])]
             IN  [h EXCEPT ![Len(h)] = RStripStr(h[Len(h)])]

Put(m, k, v) == [x \in (DOMAIN m) \cup {k} |-> IF x = k THEN v ELSE m[x]]
Remove(m, k) == [x \in (DOMAIN m) \ {k} |-> m[x]]
EmptyMap == [k \in {} |-> None]

RECURSIVE LoadRankingLines(_, _)
LoadRankingLines(lines, acc) ==
    IF lines = <<>> THEN acc
    ELSE LET parts == StripLine(Head(lines))
             rest == Tail(lines)
         IN  IF parts = <<>> THEN LoadRankingLines(rest, acc)
             ELSE IF Len(parts) < 2 THEN LoadRankingLines(rest, acc)   \* IndexError
             ELSE IF ~PyInt(parts[2]).ok THEN LoadRankingLines(rest, acc)   \* ValueError
             ELSE LoadRankingLines(rest, Put(acc, parts[1], IntRank(PyInt(parts[2]).i)))

\* A field whose bytes the encoding of open(output_file, 'r') does not
\* decode (0xff under UTF-8).
Undecodable == "<0xff>"

\* The text layer decodes the file a buffer at a time: a file of the model
\* fits in one buffer, so the first read of the loop decodes all of it.
Decodes(lines) ==
    \A k \in DOMAIN lines : \A j \in DOMAIN lines[k] : lines[k][j] # Undecodable

\* load_rankings: the loop runs inside try/except Exception; a
\* UnicodeDecodeError of the first read ends it with rankings still empty.
load_rankings(f, out) ==
    IF ~f[out].exists THEN EmptyMap
    ELSE IF ~Decodes(f[out].lines) THEN EmptyMap
    ELSE LoadRankingLines(f[out].lines, EmptyMap)

EmptyComments == [k \in {} |-> ""]

RECURSIVE LoadCommentLines(_, _)
LoadCommentLines(lines, acc) ==
    IF lines = <<>> THEN acc
    ELSE LET parts == StripLine(Head(lines))
             rest == Tail(lines)
         IN  IF Len(parts) < 2 THEN LoadCommentLines(rest, acc)   \* empty, or no tab
             ELSE IF Len(parts) >= 3 /\ parts[3] # ""
                  THEN LoadCommentLines(rest, Put(acc, parts[1], parts[3]))
             ELSE LoadCommentLines(rest, acc)

load_comments(f, out) ==
    LET cfile == LoadCommentsFile(out)
    IN  IF ~f[cfile].exists THEN EmptyComments
        ELSE LoadCommentLines(f[cfile].lines, EmptyComments)

(***************************************************************************)
(* utils.py: is_valid_rank, find_next_unranked                             *)
(***************************************************************************)
is_valid_rank(rank_text, min_rank, max_rank, rank_map) ==
    LET rank_str == StripStr(rank_text)
    IN  IF DOMAIN rank_map # {}
        THEN IF rank_str \in DOMAIN rank_map
             THEN [valid |-> TRUE, rank |-> rank_map[rank_str]]
             ELSE [valid |-> FALSE, rank |-> None]
        ELSE IF PyInt(rank_str).ok /\ min_rank <= PyInt(rank_str).i
                /\ PyInt(rank_str).i <= max_rank
             THEN [valid |-> TRUE, rank |-> IntRank(PyInt(rank_str).i)]
             ELSE [valid |-> FALSE, rank |-> None]

\* Indices are 0-based as in the code: files[k + 1] is jpg_files[k].
find_next_unranked(files, rk, start) ==
    IF \E k \in start..(Len(files) - 1) : files[k + 1] \notin DOMAIN rk
    THEN CHOOSE k \in start..(Len(files) - 1) :
            /\ files[k + 1] \notin DOMAIN rk
            /\ \A j \in start..(k - 1) : files[j + 1] \in DOMAIN rk
    ELSE -1

\* get_rank_range: (0, 3) for an empty configuration, else the least and
\* greatest configured value (the model orders int values only).
get_rank_range(cfg) ==
    IF DOMAIN cfg = {} THEN <<DefaultMinRank, DefaultMaxRank>>
    ELSE LET vals == {cfg[k].i : k \in DOMAIN cfg}
         IN  <<CHOOSE a \in vals : \A b \in vals : a <= b,
               CHOOSE a \in vals : \A b \in vals : b <= a>>

(***************************************************************************)
(* utils.py: parse_radec_from_filename and the output path of              *)
(* download_secondary_image, on the names of the catalogs.                 *)
(***************************************************************************)
\* Angles are integers in units of 1/360000 degree (a hundredth of an
\* arcsecond), which holds every value of the model exactly.
UnitsPerDegree == 360000

\* The names whose coordinates the model parses, besides the catalogs'.
ParseCatalog ==
    <<"J085925.43+074849.05.jpg", "J995959.00+995959.00.jpg",
      "q_10.5_-95.0.jpg", "q_360.0_10.0.jpg", "q_400.0_10.0.jpg">>

NoMatch == [matched |-> FALSE]

\* re.search(sexagesimal_pattern, name): the groups of the match, with the
\* fields sexagesimal_to_decimal cuts out of them (int(ra_str[0:2]),
\* int(ra_str[2:4]), float(ra_str[4:]) in hundredths, and the same for dec).
SexagesimalMatch(filename) ==
    CASE filename = "J085925.43+074849.05.jpg" ->
            [matched |-> TRUE, ra_str |-> "085925.43", dec_str |-> "+074849.05",
             ra_hh |-> 8, ra_mm |-> 59, ra_ss |-> 2543,
             sign |-> 1, dec_dd |-> 7, dec_mm |-> 48, dec_ss |-> 4905,
             ra_text |-> "134.85595833333332", dec_text |-> "7.813625"]
      [] filename = "J995959.00+995959.00.jpg" ->
            [matched |-> TRUE, ra_str |-> "995959.00", dec_str |-> "+995959.00",
             ra_hh |-> 99, ra_mm |-> 59, ra_ss |-> 5900,
             sign |-> 1, dec_dd |-> 99, dec_mm |-> 59, dec_ss |-> 5900,
             ra_text |-> "1499.9958333333332", dec_text |-> "99.99972222222222"]
      [] OTHER -> NoMatch

\* sexagesimal_to_decimal: (ra_hh + ra_mm/60 + ra_ss/3600) * 15 and
\* sign * (dec_dd + dec_mm/60 + dec_ss/3600), in units.
sexagesimal_to_decimal(m) ==
    [ra |-> (m.ra_hh * 360000 + m.ra_mm * 6000 + m.ra_ss) * 15,
     dec |-> m.sign * (m.dec_dd * 360000 + m.dec_mm * 6000 + m.dec_ss)]

\* The last match of decimal_pattern in the name: the two groups, their
\* float() in hundredths of a degree, and the str() of those floats.
DecimalMatch(filename) ==
    CASE filename = "img_10.5_-20.25.jpg" ->
            [matched |-> TRUE, ra |-> 1050, dec |-> -2025, ra_text |-> "10.5", dec_text |-> "-20.25"]
      [] filename = "a_10.5_-20.25.jpg" ->
            [matched |-> TRUE, ra |-> 1050, dec |-> -2025, ra_text |-> "10.5", dec_text |-> "-20.25"]
      [] filename = "b_30.0_40.0.jpg" ->
            [matched |-> TRUE, ra |-> 3000, dec |-> 4000, ra_text |-> "30.0", dec_text |-> "40.0"]
      [] filename = "q_10.5_-95.0.jpg" ->
            [matched |-> TRUE, ra |-> 1050, dec |-> -9500, ra_text |-> "10.5", dec_text |-> "-95.0"]
      [] filename = "q_360.0_10.0.jpg" ->
            [matched |-> TRUE, ra |-> 36000, dec |-> 1000, ra_text |-> "360.0", dec_text |-> "10.0"]
      [] filename = "q_400.0_10.0.jpg" ->
            [matched |-> TRUE, ra |-> 40000, dec |-> 1000, ra_text |-> "400.0", dec_text |-> "10.0"]
      [] OTHER -> NoMatch

\* Hundredths of a degree in units.
Hundredths(n) == n * (UnitsPerDegree \div 100)

NoRadec ==
    [ok |-> FALSE, ra |-> "", dec |-> "", coord |-> <<>>, ra_deg |-> 0, dec_deg |-> 0]

\* parse_radec_from_filename: [ok, ra, dec, coord, ra_deg, dec_deg], where
\* ra and dec are the texts of the floats, coord the coord_str that
\* download_secondary_image derives for the name, and ra_deg, dec_deg the
\* values in units.  The sexagesimal branch returns what
\* sexagesimal_to_decimal gives; the decimal branch validates
\* 0 <= ra <= 360 and -90 <= dec <= 90.
parse_radec_from_filename(filename) ==
    LET sm == SexagesimalMatch(filename)
        dm == DecimalMatch(filename)
    IN  IF sm.matched
        THEN [ok |-> TRUE, ra |-> sm.ra_text, dec |-> sm.dec_text,
              coord |-> <<sm.ra_str, sm.dec_str>>,
              ra_deg |-> sexagesimal_to_decimal(sm).ra,
              dec_deg |-> sexagesimal_to_decimal(sm).dec]
        ELSE IF /\ dm.matched
                /\ 0 <= dm.ra /\ dm.ra <= 360 * 100
                /\ -90 * 100 <= dm.dec /\ dm.dec <= 90 * 100
        THEN [ok |-> TRUE, ra |-> dm.ra_text, dec |-> dm.dec_text,
              coord |-> <<dm.ra_text, "_", dm.dec_text>>,
              ra_deg |-> Hundredths(dm.ra), dec_deg |-> Hundredths(dm.dec)]
        ELSE NoRadec

\* output_path = Path(output_dir) / f"{survey_name}_{coord_str}.jpg"
SecondaryOutputPath(radec) == <<"wise", "/", "WISE", "_">> \o radec.coord \o <<".jpg">>

\* fits_path = Path(output_dir) / f"temp_{survey_name}_{ra}_{dec}.fits"
TempFitsPath(radec) == <<"wise", "/", "temp_", "WISE", "_", radec.ra, "_", radec.dec, ".fits">>

\* A file of the output directory: its path and what it holds, "fits" (the
\* raw raster), "image" (a complete JPG) or "partial" (a JPG cut short).
DirFile(path, kind) == [path |-> path, kind |-> kind]
DirPut(dir, path, kind) == {e \in dir : e.path # path} \cup {DirFile(path, kind)}
DirUnlink(dir, path) == {e \in dir : e.path # path}

\* Where download_secondary_image can fail: "request" (requests.get or
\* raise_for_status raises), "open" (fits.open or the conversion of the
\* data raises), "shape" (the raster has neither 2 nor 3 dimensions),
\* "composite" (the layer mapping or the scaling raises) and "save"
\* (image.save raises).
FetchFaults == {"request", "open", "shape", "composite", "save"}

NoPath == <<>>

\* download_secondary_image on the output directory `dir`, failing at
\* `fault` ("none": no failure): [ret, dir].  `partial`: whether a failed
\* image.save leaves the file it had opened.
download_secondary_image(dir, radec, fault, partial) ==
    LET fits_path == TempFitsPath(radec)
        output_path == SecondaryOutputPath(radec)
        written == DirPut(dir, fits_path, "fits")
    IN  CASE fault = "request" -> [ret |-> NoPath, dir |-> dir]
          [] fault = "open" -> [ret |-> NoPath, dir |-> written]
          [] fault = "shape" -> [ret |-> NoPath, dir |-> DirUnlink(written, fits_path)]
          [] fault = "composite" -> [ret |-> NoPath, dir |-> written]
          [] fault = "save" ->
                [ret |-> NoPath,
                 dir |-> IF partial THEN DirPut(written, output_path, "partial") ELSE written]
          [] OTHER ->
                [ret |-> output_path,
                 dir |-> DirUnlink(DirPut(written, output_path, "image"), fits_path)]

(***************************************************************************)
(* utils.py: apply_asinh_scaling, on a layer given as the sequence of its  *)
(* pixels.  Pixels are integers or NaN; percentiles and the limits vmin,   *)
(* vmax are in hundredths of a pixel unit, which holds them exactly.       *)
(***************************************************************************)
\* The code of a NaN pixel.
NaN == -1000

\* Pixels in a layer.
MaxPixels == 3

PixelValues == {NaN, -1, 0, 1, 2, 3}

Layers == UNION {[1..n -> PixelValues] : n \in 0..MaxPixels}

\* Thresholds[k]: the least x in [0, 1], in millionths, with
\* arcsinh(8 * x) / arcsinh(8) * 255 >= k, that is sinh(k/255 * arcsinh(8)) / 8.
Thresholds ==
    <<1362, 2723, 4084, 5446, 6809, 8172, 9537, 10902, 12269, 13638,
      15007, 16379, 17753, 19129, 20507, 21887, 23270, 24656, 26045, 27436,
      28832, 30230, 31632, 33038, 34448, 35861, 37280, 38702, 40129, 41561,
      42998, 44440, 45887, 47339, 48797, 50261, 51731, 53207, 54690, 56179,
      57674, 59176, 60686, 62202, 63726, 65258, 66797, 68344, 69899, 71463,
      73035, 74616, 76205, 77804, 79411, 81029, 82655, 84292, 85939, 87595,
      89262, 90940, 92629, 94328, 96039, 97761, 99495, 101240, 102997, 104767,
      106549, 108344, 110151, 111972, 113806, 115653, 117514, 119389, 121279, 123182,
      125100, 127033, 128981, 130945, 132924, 134918, 136929, 138956, 140999, 143059,
      145136, 147230, 149342, 151471, 153619, 155784, 157968, 160171, 162393, 164634,
      166894, 169174, 171475, 173795, 176137, 178499, 180882, 183287, 185713, 188162,
      190633, 193126, 195642, 198182, 200745, 203331, 205942, 208578, 211238, 213923,
      216633, 219369, 222131, 224920, 227735, 230577, 233447, 236344, 239269, 242222,
      245205, 248216, 251257, 254327, 257428, 260559, 263721, 266915, 270139, 273397,
      276686, 280008, 283364, 286753, 290176, 293633, 297125, 300653, 304216, 307815,
      311451, 315123, 318833, 322581, 326367, 330191, 334055, 337959, 341902, 345886,
      349911, 353978, 358086, 362237, 366431, 370668, 374949, 379275, 383646, 388062,
      392524, 397033, 401588, 406192, 410843, 415544, 420293, 425092, 429942, 434843,
      439795, 444799, 449856, 454967, 460131, 465350, 470624, 475954, 481340, 486784,
      492285, 497844, 503463, 509141, 514879, 520679, 526540, 532464, 538451, 544501,
      550617, 556797, 563044, 569357, 575738, 582187, 588705, 595292, 601951, 608680,
      615482, 622357, 629306, 636329, 643428, 650603, 657855, 665185, 672594, 680083,
      687652, 695303, 703036, 710853, 718754, 726740, 734812, 742971, 751219, 759555,
      767982, 776500, 785109, 793812, 802609, 811501, 820489, 829574, 838758, 848042,
      857425, 866911, 876499, 886191, 895988, 905892, 915903, 926022, 936251, 946591,
      957044, 967610, 978290, 989087, 1000000>>

ThresholdScale == 1000000

\* (np.clip(np.arcsinh(Q * x) / np.arcsinh(Q), 0, 1) * 255).astype(np.uint8)
\* for x = num / den in [0, 1]: the truncation counts the thresholds passed.
StretchByte(num, den) ==
    Cardinality({k \in DOMAIN Thresholds : num * ThresholdScale >= Thresholds[k] * den})

\* np.percentile(flat_sorted, q), times 100: linear interpolation between
\* the two values around position q/100 * (n - 1).
Percentile(flat_sorted, q) ==
    LET n == Len(flat_sorted)
        pos == q * (n - 1)
        lo == pos \div 100
        hi == IF lo + 1 <= n - 1 THEN lo + 1 ELSE lo
    IN  flat_sorted[lo + 1] * 100 + (flat_sorted[hi + 1] - flat_sorted[lo + 1]) * (pos % 100)

Unscaled == [done |-> FALSE, out |-> <<>>, zero_division |-> FALSE]

\* apply_asinh_scaling(data): [done, out, zero_division].  When vmax = vmin
\* after the fallback to min and max, (data_clean - vmin) / (vmax - vmin)
\* divides by zero: numpy warns and gives nan for 0/0 and -inf or inf for
\* the rest; clip leaves nan and takes the infinities to 0 and 1, and the
\* conversion of nan to uint8 is whatever the platform gives, `nan_cast`.
apply_asinh_scaling(layer, nan_cast) ==
    LET data_clean == [k \in DOMAIN layer |-> IF layer[k] = NaN THEN 0 ELSE layer[k]]
        flat_sorted == SortSeq(SelectSeq(data_clean, LAMBDA x : x > 0),
                               LAMBDA a, b : a < b)
        p1 == Percentile(flat_sorted, 1)
        p99 == Percentile(flat_sorted, 99)
        vmin == IF p1 = p99 THEN flat_sorted[1] * 100 ELSE p1
        vmax == IF p1 = p99 THEN flat_sorted[Len(flat_sorted)] * 100 ELSE p99
        num(x) == x * 100 - vmin
        den == vmax - vmin
        clipped(x) == IF num(x) < 0 THEN 0 ELSE IF num(x) > den THEN den ELSE num(x)
    IN  IF Len(layer) = 0
        THEN [done |-> TRUE, out |-> <<>>, zero_division |-> FALSE]
        ELSE IF Len(flat_sorted) = 0
        THEN [done |-> TRUE, out |-> [k \in DOMAIN layer |-> 0], zero_division |-> FALSE]
        ELSE IF den = 0
        THEN [done |-> TRUE,
              out |-> [k \in DOMAIN layer |->
                          IF num(data_clean[k]) = 0 THEN nan_cast
                          ELSE IF num(data_clean[k]) < 0 THEN 0 ELSE 255],
              zero_division |-> TRUE]
        ELSE [done |-> TRUE,
              out |-> [k \in DOMAIN layer |-> StretchByte(clipped(data_clean[k]), den)],
              zero_division |-> FALSE]

(***************************************************************************)
(* astrorank.py: DownloadWorker.run, a signal at a time.  A worker is      *)
(* [file, path, signals, fault]: the name and output path it was started   *)
(* for, the signals it has emitted so far, and where its download failed.  *)
(***************************************************************************)
\* The values download_secondary_image passes to progress_callback, in order.
ProgressValues == <<"10", "25", "40", "50", "60", "75", "90", "100">>

TerminalSignals == {"finished", "error"}

\* How many progress values have been emitted when `fault` strikes.
FaultPoint(fault) ==
    CASE fault = "request" -> 1
      [] fault = "open" -> 3
      [] fault = "shape" -> 4
      [] fault = "composite" -> 5
      [] fault = "save" -> 6

\* run() has emitted its terminal signal and returned.
Ended(w) == \E i \in DOMAIN w.signals : w.signals[i] \in TerminalSignals

\* A run that announces the end of the download and then its failure.
run_step_finishing_first(w, fault) ==
    IF fault # "none"
    THEN [w EXCEPT !.signals = @ \o <<"finished", "error">>, !.fault = fault]
    ELSE IF Len(w.signals) < Len(ProgressValues)
    THEN [w EXCEPT !.signals = Append(@, ProgressValues[Len(w.signals) + 1])]
    ELSE [w EXCEPT !.signals = Append(@, "finished")]

\* The next signal of run(): download_secondary_image failing here with
\* `fault` (result None or an exception: error.emit), or else its next
\* emit_progress, or after the last one its return (finished.emit).
run_step(w, fault) ==
    IF fault # "none"
    THEN [w EXCEPT !.signals = Append(@, "error"), !.fault = fault]
    ELSE IF Len(w.signals) < Len(ProgressValues)
    THEN [w EXCEPT !.signals = Append(@, ProgressValues[Len(w.signals) + 1])]
    ELSE [w EXCEPT !.signals = Append(@, "finished")]

(***************************************************************************)
(* astrorank.py: the methods of AstrorankGUI, as functions of the mutable  *)
(* fields of the session (a record `self`).                                *)
(***************************************************************************)
Self ==
    [fs |-> fs, rankings |-> rankings, comments |-> comments,
     current_index |-> current_index, save_counter |-> save_counter,
     secondary_images |-> secondary_images, dual_view_active |-> dual_view_active,
     downloading |-> downloading, workers |-> workers,
     secondary_dir |-> secondary_dir, unsaved |-> unsaved]

CurrentFile(self) == jpg_files[self.current_index + 1]

\* A call of save_rankings(str(self.output_file), self.rankings, self.jpg_files, cm)
SaveCall(self, cm) ==
    [self EXCEPT !.fs = save_rankings(self.fs, output_file, self.rankings, jpg_files, cm),
                 !.unsaved = IF CanWrite(output_file) THEN 0 ELSE @]

\* A batch save that waits for one rank more.
BatchDueLate(counter) == counter > BatchSize

\* submit_rank's test for a batch save: self.save_counter >= 10
BatchDue(counter) == counter >= BatchSize

\* submit_rank after validation: the rank is stored, the counter
\* incremented, and every tenth rank saves.
AcceptRank(self, rank) ==
    LET s1 == [self EXCEPT !.rankings = Put(@, CurrentFile(self), rank),
                           !.save_counter = @ + 1,
                           !.unsaved = @ + 1]
    IN  IF BatchDue(s1.save_counter)
        THEN [SaveCall(s1, s1.comments) EXCEPT !.save_counter = 0]
        ELSE s1

\* A submit_rank that counts the submission before it validates it.
submit_rank_counting_first(self, text) ==
    LET range == get_rank_range(rank_config)
        v == is_valid_rank(StripStr(text), range[1], range[2], rank_config)
        s0 == [self EXCEPT !.save_counter = @ + 1]
    IN  IF ~v.valid
        THEN [self |-> s0, ret |-> FALSE]
        ELSE [self |-> AcceptRank(self, v.rank), ret |-> TRUE]

\* submit_rank, reading `text` from rank_input: [self, ret]
submit_rank(self, text) ==
    LET range == get_rank_range(rank_config)
        v == is_valid_rank(StripStr(text), range[1], range[2], rank_config)
    IN  IF ~v.valid
        THEN [self |-> self, ret |-> FALSE]
        ELSE [self |-> AcceptRank(self, v.rank), ret |-> TRUE]

show_secondary_error(self) == [self EXCEPT !.downloading = FALSE]

download_secondary_for_current(self) ==
    LET radec == parse_radec_from_filename(CurrentFile(self))
    IN  IF ~radec.ok
        THEN show_secondary_error(self)
        ELSE [self EXCEPT !.downloading = TRUE,
                          !.workers = Append(@, [file |-> CurrentFile(self),
                                                 path |-> SecondaryOutputPath(radec),
                                                 signals |-> <<>>,
                                                 fault |-> "none"])]

_ensure_secondary_for_current(self) ==
    IF CurrentFile(self) \notin DOMAIN self.secondary_images
    THEN download_secondary_for_current(self)
    ELSE self

\* The tail of go_previous, go_to_first and go_next.
AfterMove(self) ==
    IF self.dual_view_active /\ secondary_enabled
    THEN _ensure_secondary_for_current(self)
    ELSE self

go_previous(self) ==
    IF self.current_index > 0
    THEN AfterMove([self EXCEPT !.current_index = @ - 1])
    ELSE self

go_to_first(self) == AfterMove([self EXCEPT !.current_index = 0])

\* A go_next without the test for the last image.
go_next_unguarded(self) == AfterMove([self EXCEPT !.current_index = @ + 1])

go_next(self) ==
    IF self.current_index < Len(jpg_files) - 1
    THEN AfterMove([self EXCEPT !.current_index = @ + 1])
    ELSE self

skip_to_next_unranked(self) ==
    LET next_index == find_next_unranked(jpg_files, self.rankings, self.current_index + 1)
    IN  IF next_index = -1 THEN self
        ELSE [self EXCEPT !.current_index = next_index]

\* A clear_rank that leaves the write to the next batch save.
clear_rank_deferred(self) ==
    IF CurrentFile(self) \in DOMAIN self.rankings
    THEN [self EXCEPT !.rankings = Remove(@, CurrentFile(self)),
                      !.save_counter = @ + 1]
    ELSE self

\* clear_rank saves without passing the comments: save_rankings then takes
\* comments = {}.
clear_rank(self) ==
    IF CurrentFile(self) \in DOMAIN self.rankings
    THEN SaveCall([self EXCEPT !.rankings = Remove(@, CurrentFile(self))], EmptyComments)
    ELSE self

\* A manual save that leaves the batch counter as it is.
save_rankings_now_keeping_counter(self) == SaveCall(self, self.comments)

save_rankings_now(self) ==
    [SaveCall(self, self.comments) EXCEPT !.save_counter = 0]

\* open_comment_dialog, accepted with `text` in the dialog
open_comment_dialog(self, text) ==
    LET new_comment == StripStr(text)
    IN  IF new_comment # ""
        THEN [self EXCEPT !.comments = Put(@, CurrentFile(self), new_comment)]
        ELSE IF CurrentFile(self) \in DOMAIN self.comments
        THEN [self EXCEPT !.comments = Remove(@, CurrentFile(self))]
        ELSE self

toggle_secondary_view(self) ==
    IF CurrentFile(self) \in DOMAIN self.secondary_images
    THEN [self EXCEPT !.dual_view_active = ~@]
    ELSE download_secondary_for_current([self EXCEPT !.dual_view_active = TRUE])

\* A success handler that also saves, as clear_rank does.
on_secondary_download_success_saving(self, image_path) ==
    SaveCall([self EXCEPT !.downloading = FALSE,
                          !.secondary_images = Put(@, CurrentFile(self), image_path),
                          !.dual_view_active = TRUE],
             EmptyComments)

on_secondary_download_success(self, image_path) ==
    [self EXCEPT !.downloading = FALSE,
                 !.secondary_images = Put(@, CurrentFile(self), image_path),
                 !.dual_view_active = TRUE]

\* open_legacy_survey_viewer with the browser enabled: [self, raised].
\* Without coordinates it calls self.show_wise_error, which AstrorankGUI
\* does not define: AttributeError.
open_legacy_survey_viewer(self) ==
    IF ~parse_radec_from_filename(CurrentFile(self)).ok
    THEN [self |-> self, raised |-> TRUE]
    ELSE [self |-> self, raised |-> FALSE]

\* The secondary_dir section of the default configuration: enabled False,
\* path "".
secondary_dir_enabled == FALSE

\* toggle_secondary_dir; use_secondary_dir only selects the directory
\* display_image reads from.
toggle_secondary_dir(self) ==
    IF ~secondary_dir_enabled
    THEN show_secondary_error(self)
    ELSE self

\* open_ned_search with the NED search enabled
open_ned_search(self) ==
    IF ~parse_radec_from_filename(CurrentFile(self)).ok
    THEN show_secondary_error(self)
    ELSE self

\* The navigation branches of keyPressEvent: with text pending in
\* rank_input the rank is submitted first, and the move is made only if
\* submit_rank returned True.
SubmitPending(self, text) ==
    IF StripStr(text) # ""
    THEN submit_rank(self, text)
    ELSE [self |-> self, ret |-> TRUE]

(***************************************************************************)
(* The state machine                                                       *)
(***************************************************************************)
Scenario(out, ranks, ds) == [out |-> out, ranks |-> ranks, dirs |-> ds]

\* The sessions of the store: an integer, a custom and a keyed rank
\* configuration with the default output path, and the numeric fallback
\* with an output path without ".txt" and with one whose directory holds
\* ".txt".
StoreScenarios ==
    {Scenario(DefaultOutput, IntRanks, {<<>>}),
     Scenario(DefaultOutput, CustomRanks, {<<>>}),
     Scenario(DefaultOutput, KeyedRanks, {<<>>}),
     Scenario(NoTxtOutput, EmptyRanks, {<<>>}),
     Scenario(TxtDirOutput, EmptyRanks, {Parent(TxtDirOutput)})}

FetchScenarios == {Scenario(DefaultOutput, EmptyRanks, {<<>>})}

\* AstrorankGUI.__init__ on the disk `f`: the fields of the new session.
Constructed(f) ==
    [fs |-> f,
     rankings |-> load_rankings(f, output_file),
     comments |-> load_comments(f, output_file),
     current_index |-> 0,
     save_counter |-> 0,
     secondary_images |-> [k \in {} |-> <<>>],
     dual_view_active |-> FALSE,
     downloading |-> FALSE,
     workers |-> <<>>,
     unsaved |-> 0]

\* The disk a first session starts on.
EmptyDisk == [p \in {} |-> NoFile]

\* The disk a previous session on the fetch catalog left: its rankings
\* file and comments file, as save_rankings writes them.
PreviousRanks == ("a_10.5_-20.25.jpg" :> IntRank(1)) @@ ("plain.jpg" :> IntRank(2))
PreviousComments == ("a_10.5_-20.25.jpg" :> "note")
PreviousDisk ==
    (DefaultOutput :> File(RankingsLines(PreviousRanks, FetchCatalog))) @@
    (SaveCommentsFile(DefaultOutput) :>
        File(CommentsLines(PreviousRanks, FetchCatalog, PreviousComments)))

SessionInit(catalog, scenarios, sec, disk) ==
    \E sc \in scenarios :
        /\ jpg_files = catalog
        /\ output_file = sc.out
        /\ rank_config = sc.ranks
        /\ dirs = sc.dirs
        /\ secondary_enabled = sec
        /\ LET s == Constructed([p \in SessionPaths(sc.out) |->
                                     IF p \in DOMAIN disk THEN disk[p] ELSE NoFile])
           IN  /\ fs = s.fs
               /\ rankings = s.rankings
               /\ comments = s.comments
               /\ current_index = s.current_index
               /\ save_counter = s.save_counter
               /\ secondary_images = s.secondary_images
               /\ dual_view_active = s.dual_view_active
               /\ downloading = s.downloading
               /\ workers = s.workers
               /\ unsaved = s.unsaved
        /\ secondary_dir = {}
        /\ phase = "running"
        /\ last = "start"

\* A session, with no layer being stretched.
InitWith(catalog, scenarios, sec, disk) ==
    /\ SessionInit(catalog, scenarios, sec, disk)
    /\ data = <<>>
    /\ scaled = Unscaled

Init == InitWith(StoreCatalog, StoreScenarios, FALSE, EmptyDisk)
InitFetch == InitWith(FetchCatalog, FetchScenarios, TRUE, PreviousDisk)

\* The session after a handler: the fields of `s`, and `l` as the last operation.
Commit(s, l) ==
    \E x \in {s} :
        /\ Len(x.workers) <= MaxWorkers
        /\ fs' = x.fs
        /\ rankings' = x.rankings
        /\ comments' = x.comments
        /\ current_index' = x.current_index
        /\ save_counter' = x.save_counter
        /\ secondary_images' = x.secondary_images
        /\ dual_view_active' = x.dual_view_active
        /\ downloading' = x.downloading
        /\ workers' = x.workers
        /\ secondary_dir' = x.secondary_dir
        /\ unsaved' = x.unsaved
        /\ last' = l
        /\ phase' = phase
        /\ UNCHANGED config_vars

Outcome(text) ==
    IF submit_rank(Self, text).ret THEN "accepted" ELSE "rejected"

\* keyPressEvent, a navigation key.  `arrow`: the key bound to the action
\* is one of Left, Right, Up, Down, Return, Enter, which keyPressEvent
\* ignores during a download.
KeySubmitAndNext(text, arrow) ==
    /\ phase = "running"
    /\ IF downloading /\ arrow THEN Commit(Self, "other")
       ELSE LET r == submit_rank(Self, text)
            IN  Commit(IF r.ret THEN go_next(r.self) ELSE r.self, Outcome(text))

NavOutcome(text) == IF StripStr(text) # "" THEN Outcome(text) ELSE "other"

KeyFirstImage(text, arrow) ==
    /\ phase = "running"
    /\ IF downloading /\ arrow THEN Commit(Self, "other")
       ELSE LET r == SubmitPending(Self, text)
            IN  Commit(IF r.ret THEN go_to_first(r.self) ELSE r.self, NavOutcome(text))

KeySkipToNextUnranked(text, arrow) ==
    /\ phase = "running"
    /\ IF downloading /\ arrow THEN Commit(Self, "other")
       ELSE LET r == SubmitPending(Self, text)
            IN  Commit(IF r.ret THEN skip_to_next_unranked(r.self) ELSE r.self, NavOutcome(text))

KeyPrevious(text, arrow) ==
    /\ phase = "running"
    /\ IF downloading /\ arrow THEN Commit(Self, "other")
       ELSE LET r == SubmitPending(Self, text)
            IN  Commit(IF r.ret THEN go_previous(r.self) ELSE r.self, NavOutcome(text))

KeyNext(text, arrow) ==
    /\ phase = "running"
    /\ IF downloading /\ arrow THEN Commit(Self, "other")
       ELSE LET r == SubmitPending(Self, text)
            IN  Commit(IF r.ret THEN go_next(r.self) ELSE r.self, NavOutcome(text))

\* _check_rank_key with auto-submit checked: the key's value is put into
\* rank_input as text, then submit_rank and go_next.
RankKey(key) ==
    /\ phase = "running"
    /\ key \in DOMAIN rank_config
    /\ LET text == PyStr(rank_config[key])
           r == submit_rank(Self, text)
       IN  Commit(go_next(r.self), Outcome(text))

\* on_table_click on row `row` with `text` in rank_input
TableClick(row, text) ==
    /\ phase = "running"
    /\ LET s1 == IF StripStr(text) # "" THEN submit_rank(Self, text).self ELSE Self
       IN  Commit([s1 EXCEPT !.current_index = row],
                  NavOutcome(text))

ClearRank ==
    /\ phase = "running"
    /\ Commit(clear_rank(Self),
              IF CurrentFile(Self) \in DOMAIN rankings THEN "clear" ELSE "clear_noop")

\* keyPressEvent, the save key: save_rankings_now, which ends by showing
\* the "Save Successful" dialog whatever save_rankings did; last = "save"
\* stands for that report.
SaveRankingsNow ==
    /\ phase = "running"
    /\ Commit(save_rankings_now(Self), "save")

EditComment(text) ==
    /\ phase = "running"
    /\ Commit(open_comment_dialog(Self, text), "other")

\* closeEvent: the final save, then the window closes.
CloseEvent ==
    /\ phase = "running"
    /\ LET s == SaveCall(Self, comments)
       IN  /\ fs' = s.fs
           /\ unsaved' = s.unsaved
    /\ phase' = "closed"
    /\ last' = "close"
    /\ UNCHANGED <<config_vars, rankings, comments, current_index, save_counter,
                   secondary_images, dual_view_active, downloading, workers,
                   secondary_dir>>

\* main's SIGINT handler: app.quit() ends the event loop; no closeEvent.
Sigint ==
    /\ phase = "running"
    /\ phase' = "closed"
    /\ last' = "sigint"
    /\ UNCHANGED <<config_vars, fs, rankings, comments, current_index, save_counter,
                   secondary_images, dual_view_active, downloading, workers,
                   secondary_dir, unsaved>>

\* The next session on the same directory, output file and configuration.
Restart ==
    /\ phase = "closed"
    /\ LET s == Constructed(fs)
       IN  /\ fs' = s.fs
           /\ rankings' = s.rankings
           /\ comments' = s.comments
           /\ current_index' = s.current_index
           /\ save_counter' = s.save_counter
           /\ secondary_images' = s.secondary_images
           /\ dual_view_active' = s.dual_view_active
           /\ downloading' = s.downloading
           /\ workers' = s.workers
           /\ unsaved' = s.unsaved
    /\ phase' = "running"
    /\ last' = "start"
    /\ UNCHANGED <<config_vars, secondary_dir>>

\* keyPressEvent, the wise_toggle key
ToggleSecondaryView ==
    /\ phase = "running"
    /\ secondary_enabled
    /\ Commit(toggle_secondary_view(Self), "toggle")

WithoutWorker(self, k) ==
    [self EXCEPT !.workers = SubSeq(@, 1, k - 1) \o SubSeq(@, k + 1, Len(@))]

\* DownloadWorker.run of worker k, with download_secondary_image failing at
\* `fault`: [ret, dir]
WorkerRun(k, fault, partial) ==
    download_secondary_image(secondary_dir, parse_radec_from_filename(workers[k].file),
                             fault, partial)

\* DownloadWorker.run ends with finished(result): on_secondary_download_success
WorkerFinished(k) ==
    /\ phase = "running"
    /\ k \in DOMAIN workers
    /\ LET r == WorkerRun(k, "none", FALSE)
       IN  Commit(on_secondary_download_success(
                      [WithoutWorker(Self, k) EXCEPT !.secondary_dir = r.dir], r.ret),
                  "finished")

\* DownloadWorker.run ends with error(message): show_secondary_error
WorkerError(k, fault, partial) ==
    /\ phase = "running"
    /\ k \in DOMAIN workers
    /\ fault \in FetchFaults
    /\ LET r == WorkerRun(k, fault, partial)
       IN  Commit(show_secondary_error(
                      [WithoutWorker(Self, k) EXCEPT !.secondary_dir = r.dir]),
                  "error")

\* keyPressEvent, the legacy_survey key.  An exception that leaves
\* keyPressEvent either ends the process (PyQt5 from 5.5 on, no excepthook
\* installed) or is printed and the session goes on (earlier versions):
\* `aborts`.
OpenLegacySurveyViewer(aborts) ==
    /\ phase = "running"
    /\ LET r == open_legacy_survey_viewer(Self)
       IN  IF r.raised
           THEN /\ phase' = IF aborts THEN "closed" ELSE "running"
                /\ last' = "fault"
                /\ UNCHANGED <<config_vars, fs, rankings, comments, current_index,
                               save_counter, secondary_images, dual_view_active,
                               downloading, workers, secondary_dir, unsaved>>
           ELSE /\ ~aborts
                /\ Commit(r.self, "other")

\* keyPressEvent, the ned_search key
OpenNedSearch ==
    /\ phase = "running"
    /\ Commit(open_ned_search(Self), "other")

\* keyPressEvent, the toggle_secondary_dir key
ToggleSecondaryDir ==
    /\ phase = "running"
    /\ Commit(toggle_secondary_dir(Self), "other")

\* Whether the pressed key is one keyPressEvent ignores during a download
\* matters only during a download.
ArrowChoices == IF downloading THEN BOOLEAN ELSE {FALSE}

StoreNext ==
    \/ \E t \in InputTexts, a \in ArrowChoices : KeySubmitAndNext(t, a)
    \/ \E t \in InputTexts, a \in ArrowChoices : KeyFirstImage(t, a)
    \/ \E t \in InputTexts, a \in ArrowChoices : KeySkipToNextUnranked(t, a)
    \/ \E t \in InputTexts, a \in ArrowChoices : KeyPrevious(t, a)
    \/ \E t \in InputTexts, a \in ArrowChoices : KeyNext(t, a)
    \/ \E k \in DOMAIN rank_config : RankKey(k)
    \/ \E row \in 0..(Len(jpg_files) - 1), t \in InputTexts : TableClick(row, t)
    \/ ClearRank
    \/ SaveRankingsNow
    \/ \E t \in DialogTexts : EditComment(t)

Next ==
    \/ StoreNext
    \/ CloseEvent
    \/ Sigint
    \/ Restart

Spec == Init /\ [][Next]_vars

(***************************************************************************)
(* The fetch machine: a session with the secondary survey enabled, its     *)
(* navigation keys pressed with rank_input empty, the wise_toggle key and  *)
(* the terminal signals of the workers.                                    *)
(***************************************************************************)
NextFetch ==
    \/ \E a \in ArrowChoices : KeyFirstImage("", a)
    \/ \E a \in ArrowChoices : KeyPrevious("", a)
    \/ \E a \in ArrowChoices : KeyNext("", a)
    \/ \E row \in 0..(Len(jpg_files) - 1) : TableClick(row, "")
    \/ ToggleSecondaryView
    \/ \E aborts \in BOOLEAN : OpenLegacySurveyViewer(aborts)
    \/ OpenNedSearch
    \/ ToggleSecondaryDir
    \/ \E k \in 1..MaxWorkers : WorkerFinished(k)
    \/ \E k \in 1..MaxWorkers, fault \in FetchFaults,
          partial \in BOOLEAN : WorkerError(k, fault, partial)

SpecFetch == InitFetch /\ [][NextFetch]_vars

(***************************************************************************)
(* The position machine: a session over names with coordinates of both     *)
(* forms, in and out of range, in which the user selects a name and asks   *)
(* for its secondary image or its NED search.                              *)
(***************************************************************************)
InitParse == InitWith(ParseCatalog, FetchScenarios, TRUE, EmptyDisk)

NextParse ==
    \/ \E row \in 0..(Len(jpg_files) - 1) : TableClick(row, "")
    \/ ToggleSecondaryView
    \/ OpenNedSearch

SpecParse == InitParse /\ [][NextParse]_vars

(***************************************************************************)
(* The load machine: sessions that start on a rankings file written or     *)
(* edited outside the program, or on none.                                 *)
(***************************************************************************)
\* Lines in the rankings file at a time.
MaxLines == 3

\* Accepted submissions between two writes of the rankings file.
MaxSubmissions == 2

\* The lines of an outside file: two well-formed lines, a line without a
\* rank field, one whose rank is no integer, one whose rank does not
\* decode, and a blank line.
OutsideLines ==
    {<<"img_10.5_-20.25.jpg", "1">>, <<"plain.jpg", "2">>, <<"plain.jpg">>,
     <<"plain.jpg", "g">>, <<"plain.jpg", Undecodable>>, <<>>}

OutsideDisks ==
    {EmptyDisk} \cup
    {(DefaultOutput :> File(lines)) :
        lines \in UNION {[1..n -> OutsideLines] : n \in 0..MaxLines}}

LoadScenarios == {Scenario(DefaultOutput, IntRanks, {<<>>})}

LoadTexts == {"1", "g"}

InitLoad ==
    \E disk \in OutsideDisks : InitWith(StoreCatalog, LoadScenarios, FALSE, disk)

NextLoad ==
    \/ \E t \in LoadTexts : unsaved < MaxSubmissions /\ KeySubmitAndNext(t, FALSE)
    \/ \E row \in 0..(Len(jpg_files) - 1) : TableClick(row, "")
    \/ ClearRank
    \/ CloseEvent
    \/ Sigint
    \/ Restart

SpecLoad == InitLoad /\ [][NextLoad]_vars

(***************************************************************************)
(* The run machine: the fetch workers of a session a signal at a time; the *)
(* handler of a terminal signal runs when the event loop delivers it.      *)
(***************************************************************************)
RunCatalog == <<"a_10.5_-20.25.jpg">>

InitRun == InitWith(RunCatalog, FetchScenarios, TRUE, EmptyDisk)

\* Worker k emits its next signal.
WorkerStep(k, fault) ==
    /\ phase = "running"
    /\ k \in DOMAIN workers
    /\ ~Ended(workers[k])
    /\ fault # "none" => Len(workers[k].signals) = FaultPoint(fault)
    /\ workers' = [workers EXCEPT ![k] = run_step(@, fault)]
    /\ last' = "other"
    /\ UNCHANGED <<config_vars, fs, rankings, comments, current_index, save_counter,
                   secondary_images, dual_view_active, downloading, secondary_dir,
                   phase, unsaved>>

\* The terminal signal of worker k reaches its slot.
Deliver(k, partial) ==
    /\ k \in DOMAIN workers
    /\ Ended(workers[k])
    /\ IF workers[k].fault = "none"
       THEN ~partial /\ WorkerFinished(k)
       ELSE WorkerError(k, workers[k].fault, partial)

WorkerSide(k) ==
    \/ \E fault \in FetchFaults \cup {"none"} : WorkerStep(k, fault)
    \/ \E partial \in BOOLEAN : Deliver(k, partial)

NextRun ==
    \/ ToggleSecondaryView
    \/ \E k \in 1..MaxWorkers : WorkerSide(k)
    \/ CloseEvent

\* The operating system schedules every thread and the event loop
\* delivers every queued signal; requests.get gives up after its timeout.
SpecRun ==
    /\ InitRun
    /\ [][NextRun]_vars
    /\ \A k \in 1..MaxWorkers : WF_vars(WorkerSide(k))

(***************************************************************************)
(* The stretch machine: apply_asinh_scaling applied to a layer.            *)
(***************************************************************************)
InitStretch ==
    /\ SessionInit(FetchCatalog, FetchScenarios, TRUE, EmptyDisk)
    /\ data \in Layers
    /\ scaled = Unscaled

\* scaled = apply_asinh_scaling(data[layer_idx])
ApplyAsinhScaling(nan_cast) ==
    /\ ~scaled.done
    /\ scaled' = apply_asinh_scaling(data, nan_cast)
    /\ UNCHANGED <<jpg_files, output_file, rank_config, secondary_enabled, dirs, data,
                   session_vars>>

NextStretch == \E nan_cast \in 0..255 : ApplyAsinhScaling(nan_cast)

SpecStretch == InitStretch /\ [][NextStretch]_vars

(***************************************************************************)
(* Properties                                                              *)
(***************************************************************************)
\* The rankings file has just been written from the map in memory: by
\* save_rankings_now, closeEvent or clear_rank, or by the batch save of an
\* accepted submission (which leaves save_counter at 0).
JustSaved ==
    \/ last \in {"save", "close", "clear"}
    \/ last = "accepted" /\ save_counter = 0

RankingsFile == fs[output_file]

\* C1: after any save the rankings file has exactly one line per catalog
\* identifier, in catalog order, whatever subset is ranked, and the rank
\* field of an unranked identifier's line is empty.
C1_TotalEnumeration ==
    RankingsFile.exists =>
        /\ Len(RankingsFile.lines) = Len(jpg_files)
        /\ \A k \in DOMAIN jpg_files :
              /\ Len(RankingsFile.lines[k]) >= 2
              /\ RankingsFile.lines[k][1] = jpg_files[k]
              /\ (JustSaved /\ jpg_files[k] \notin DOMAIN rankings)
                    => RankingsFile.lines[k][2] = ""

C1_Witness ==
    /\ last = "save"
    /\ RankingsFile.exists
    /\ \E a, b \in DOMAIN jpg_files :
          /\ jpg_files[a] \in DOMAIN rankings
          /\ jpg_files[b] \notin DOMAIN rankings

\* C2: for any rank map over the catalog, with ranks from the configured
\* value set (integer or custom), save followed by load_rankings returns
\* exactly the rank map: right after a save, loading the rankings file
\* gives the map in memory.
C2_RankRoundTrip ==
    JustSaved => load_rankings(fs, output_file) = rankings

\* C3: for any comment map and any output path, save followed by
\* _load_comments returns exactly the comment map; the loader reads the
\* companion file that save wrote, and that file is not the rankings file.
C3_CommentRoundTrip ==
    last \in {"save", "close"} =>
        /\ load_comments(fs, output_file) = comments
        /\ LoadCommentsFile(output_file) = SaveCommentsFile(output_file)
        /\ SaveCommentsFile(output_file) # output_file

\* The rank of `id` in memory is the rank field of its line of the rankings file.
RankPersisted(id) ==
    /\ RankingsFile.exists
    /\ \E k \in DOMAIN RankingsFile.lines :
          /\ RankingsFile.lines[k][1] = id
          /\ RankingsFile.lines[k][2] = PyStr(rankings[id])

\* The comment of `id` in memory is the comment field of its line of the
\* comments file of the session.
CommentPersisted(id) ==
    LET cfile == fs[LoadCommentsFile(output_file)]
    IN  /\ cfile.exists
        /\ \E k \in DOMAIN cfile.lines :
              /\ Len(cfile.lines[k]) >= 3
              /\ cfile.lines[k][1] = id
              /\ cfile.lines[k][3] = comments[id]

\* C4: closing the session always makes a final save: after closeEvent
\* every rank and every comment in memory is in the rankings and comments
\* files, whatever the batch counter.
C4_CloseSavesAll ==
    last = "close" =>
        /\ \A id \in DOMAIN rankings : RankPersisted(id)
        /\ \A id \in DOMAIN comments : CommentPersisted(id)

ValidValues ==
    IF DOMAIN rank_config = {}
    THEN {IntRank(n) : n \in DefaultMinRank..DefaultMaxRank}
    ELSE {rank_config[k] : k \in DOMAIN rank_config}

\* `text` names no value of the valid set: it is neither a configured key
\* nor the text of a valid value.
InvalidText(text) ==
    /\ StripStr(text) \notin DOMAIN rank_config
    /\ \A v \in ValidValues : PyStr(v) # StripStr(text)

\* C6: submitting a value outside the configured valid set is rejected
\* (submit_rank returns False) and changes nothing: the rank map, the batch
\* counter, the cursor and the files are as before.
C6_InvalidRejected ==
    phase = "running" =>
        \A t \in InputTexts :
            InvalidText(t) => submit_rank(Self, t) = [self |-> Self, ret |-> FALSE]

C6_Witness ==
    /\ last = "rejected"
    /\ rankings # EmptyMap
    /\ save_counter > 0
    /\ RankingsFile.exists

\* The value that `text` sets: the configured value of the key, or the
\* number typed.
ValueOf(text) ==
    IF StripStr(text) \in DOMAIN rank_config
    THEN rank_config[StripStr(text)]
    ELSE IntRank(PyInt(text).i)

\* C7: for every identifier and every value v of the valid set, accepting
\* set(id, v), then saving, then loading returns v for id.
C7_SetSaveLoad ==
    phase = "running" =>
        \A t \in InputTexts :
            submit_rank(Self, t).ret =>
                LET saved == save_rankings_now(submit_rank(Self, t).self)
                    loaded == load_rankings(saved.fs, output_file)
                IN  /\ CurrentFile(Self) \in DOMAIN loaded
                    /\ loaded[CurrentFile(Self)] = ValueOf(t)

\* The file at `p` after a save of the map `rk`: a line per catalog
\* identifier whose rank field is the identifier's rank in rk.
ShowsMap(f, p, rk) ==
    /\ f[p].exists
    /\ Len(f[p].lines) = Len(jpg_files)
    /\ \A k \in DOMAIN jpg_files :
          /\ f[p].lines[k][1] = jpg_files[k]
          /\ f[p].lines[k][2] = RankField(rk, jpg_files[k])

\* C8: clear_rank on the displayed identifier removes its rank and at once
\* rewrites the persisted files; when the identifier has no rank nothing
\* changes and nothing is written.  The ranks of the other identifiers are
\* unchanged in both cases.
C8_ClearRank ==
    phase = "running" =>
        LET id == CurrentFile(Self)
            s == clear_rank(Self)
        IN  /\ DOMAIN s.rankings = (DOMAIN rankings) \ {id}
            /\ \A other \in (DOMAIN rankings) \ {id} : s.rankings[other] = rankings[other]
            /\ s.current_index = current_index
            /\ IF id \in DOMAIN rankings
               THEN /\ s.unsaved = 0
                    /\ \A p \in {output_file, SaveCommentsFile(output_file)} :
                          CanWrite(p) => ShowsMap(s.fs, p, s.rankings)
               ELSE s = Self

C8_Witness ==
    /\ last = "clear"
    /\ rankings # EmptyMap
    /\ CurrentFile(Self) \notin DOMAIN rankings
    /\ ShowsMap(fs, output_file, rankings)

\* The identifiers with a rank on the lines of the rankings file `file`.
RankedInFile(file) ==
    {file.lines[k][1] : k \in {j \in DOMAIN file.lines :
                                   Len(file.lines[j]) >= 2 /\ file.lines[j][2] # ""}}

\* C9: a rank entry is never deleted except by clear_rank on its
\* identifier: no submission, save or close removes an entry from the map
\* in memory, no load leaves out an entry of the file, and no write other
\* than clear_rank's drops an entry from the rankings file.
C9_NeverDeletedStep ==
    /\ (last' \notin {"clear", "start"}) => (DOMAIN rankings \subseteq DOMAIN rankings')
    /\ (last' = "start") => (RankedInFile(RankingsFile) \subseteq DOMAIN rankings')
    /\ (last' # "clear") => (RankedInFile(RankingsFile) \subseteq RankedInFile(RankingsFile'))

C9_NeverDeleted == [][C9_NeverDeletedStep]_vars

\* C10: at most one fetch worker per identifier is in flight: a fetch
\* request for an identifier whose earlier fetch has not reported its
\* outcome starts no second worker, so no two workers in flight write the
\* same output path.
C10_OneWorkerPerIdentifier ==
    \A i, j \in DOMAIN workers :
        i # j => /\ workers[i].file # workers[j].file
                 /\ workers[i].path # workers[j].path

\* A fetch started for the displayed identifier has not reported yet.
FetchOutstanding ==
    \E k \in DOMAIN workers : workers[k].file = CurrentFile(Self)

\* C11: while a fetch started for the displayed identifier is outstanding,
\* no user operation (navigation keys, rank keys, table clicks) changes the
\* displayed identifier; only after the fetch reports may it change.
C11_NavigationDisabledStep ==
    (FetchOutstanding /\ last' \notin {"finished", "error"})
        => current_index' = current_index

C11_NavigationDisabled == [][C11_NavigationDisabledStep]_vars

\* C12: a record of the secondary-image cache is created only by a
\* successful fetch and only for the identifier the fetch was started for:
\* every record holds the output path of a fetch for its own identifier.
C12_CacheRecordsOwnFetch ==
    \A id \in DOMAIN secondary_images :
        /\ parse_radec_from_filename(id).ok
        /\ secondary_images[id] = SecondaryOutputPath(parse_radec_from_filename(id))

\* The file at `p` holds, for every catalog identifier, the comment `cm`
\* has for it (empty when absent).
ShowsComments(f, p, cm) ==
    /\ f[p].exists
    /\ Len(f[p].lines) = Len(jpg_files)
    /\ \A k \in DOMAIN jpg_files :
          /\ Len(f[p].lines[k]) >= 3
          /\ f[p].lines[k][1] = jpg_files[k]
          /\ f[p].lines[k][3] = CommentField(cm, jpg_files[k])

\* C13: comments are written together with ranks in every save: right
\* after an operation that saves (tenth submission, manual save, clear
\* rank, close) the comments file holds every identifier's comment in
\* memory.
C13_CommentsInEverySave ==
    JustSaved => ShowsComments(fs, SaveCommentsFile(output_file), comments)

\* C14: whenever a fetch ends in failure, neither the temporary raw raster
\* nor a partial output image is left in the destination directory.
C14_FailureLeavesNothing ==
    last = "error" => \A e \in secondary_dir : e.kind = "image"

\* C15: no step of a fetch worker and no handler of its success or failure
\* signal changes the rank map, the comment map, the batch counter or the
\* rankings and comments files.
C15_WorkersLeaveStoreStep ==
    (last' \in {"finished", "error"})
        => UNCHANGED <<rankings, comments, save_counter, fs>>

C15_WorkersLeaveStore == [][C15_WorkersLeaveStoreStep]_vars

C15_Witness ==
    /\ last = "finished"
    /\ rankings # EmptyMap
    /\ comments # EmptyComments
    /\ RankingsFile.exists
    /\ secondary_images # <<>>

\* C16: saving twice in succession with the same rank map, comment map and
\* catalog gives identical rankings and comments files: from any state a
\* second save of the maps in memory leaves the files of the first as they
\* are, and right after a manual save or a close a save changes no file.
C16_SaveIdempotent ==
    LET once == save_rankings(fs, output_file, rankings, jpg_files, comments)
    IN  /\ save_rankings(once, output_file, rankings, jpg_files, comments) = once
        /\ (last \in {"save", "close"}) => once = fs

C16_Witness ==
    /\ last = "save"
    /\ rankings # EmptyMap
    /\ comments # EmptyComments
    /\ \E k \in DOMAIN jpg_files : jpg_files[k] \notin DOMAIN rankings
    /\ fs[SaveCommentsFile(output_file)].exists

\* C17: when a save fails (the rankings or the comments file cannot be
\* written) the outcome is a reported failure and the manual save does not
\* report success: a manual save that reported success has written both
\* files from the maps in memory.
C17_FailedSaveNotSuccess ==
    last = "save" =>
        /\ ShowsMap(fs, output_file, rankings)
        /\ ShowsComments(fs, SaveCommentsFile(output_file), comments)

\* C18: for an identifier whose coordinates cannot be parsed, every
\* position-dependent action (secondary fetch, survey browser, NED search)
\* ends in a reported error without raising a fault, starts no worker and
\* leaves ranks, comments and cursor unchanged.
C18_GracefulStep ==
    (/\ ~parse_radec_from_filename(CurrentFile(Self)).ok
     /\ \/ ToggleSecondaryView
        \/ OpenNedSearch
        \/ \E aborts \in BOOLEAN : OpenLegacySurveyViewer(aborts))
        => /\ last' # "fault"
           /\ phase' = "running"
           /\ workers' = workers
           /\ UNCHANGED <<rankings, comments, current_index>>

C18_Graceful == [][C18_GracefulStep]_vars

\* The legal coordinate ranges: 0 <= ra < 360 and -90 <= dec <= 90.
InRange(radec) ==
    /\ 0 <= radec.ra_deg /\ radec.ra_deg < 360 * UnitsPerDegree
    /\ -90 * UnitsPerDegree <= radec.dec_deg /\ radec.dec_deg <= 90 * UnitsPerDegree

\* C19: for every name the coordinate parser returns either no result or
\* a pair with 0 <= ra < 360 and -90 <= dec <= 90, in the sexagesimal and
\* in the decimal branch: the parse of the displayed name is in range, and
\* every fetch was started with coordinates in range.
C19_ParsedInRange ==
    /\ parse_radec_from_filename(CurrentFile(Self)).ok
          => InRange(parse_radec_from_filename(CurrentFile(Self)))
    /\ \A k \in DOMAIN workers : InRange(parse_radec_from_filename(workers[k].file))

\* C20: the rank configuration maps keys to rank values: for every entry
\* key -> value, pressing the key with auto-submit on is accepted and
\* records value as the rank of the displayed identifier, also when the
\* key's name is not the text of the value.
C20_RankKeyStep ==
    \A k \in DOMAIN rank_config :
        RankKey(k) =>
            /\ last' = "accepted"
            /\ CurrentFile(Self) \in DOMAIN rankings'
            /\ rankings'[CurrentFile(Self)] = rank_config[k]

C20_RankKeyRecordsValue == [][C20_RankKeyStep]_vars

\* A line with a file name and a rank field that is the text of an integer.
WellFormed(line) == Len(line) >= 2 /\ PyInt(line[2]).ok

\* The entries of the well-formed lines of `file`, a later line of a name
\* replacing an earlier one; no entries for a missing file.
EntriesOf(file) ==
    LET good == {k \in DOMAIN file.lines : WellFormed(file.lines[k])}
    IN  IF ~file.exists THEN EmptyMap
        ELSE [name \in {file.lines[k][1] : k \in good} |->
                LET k == CHOOSE i \in good :
                            /\ file.lines[i][1] = name
                            /\ \A j \in good : file.lines[j][1] = name => j <= i
                IN  IntRank(PyInt(file.lines[k][2]).i)]

\* C21: load never raises: a missing rankings file gives an empty map, and
\* a file with malformed lines (rank field missing or unparseable) gives
\* exactly the entries of its well-formed lines, whatever lines come before
\* or after a malformed one: every start of a session leaves in memory the
\* entries of the well-formed lines of the file it found.
C21_LoadStep == Restart => rankings' = EntriesOf(RankingsFile)

C21_LoadSkipsMalformed == [][C21_LoadStep]_vars

\* C22: for any layer the asinh stretch returns integers within [0,255]
\* and divides by zero nowhere; a layer with no positive pixel stretches
\* to all zeros; this includes a layer whose positive pixels all have the
\* same value.
C22_StretchBounded ==
    scaled.done =>
        /\ ~scaled.zero_division
        /\ \A k \in DOMAIN scaled.out : scaled.out[k] \in 0..255
        /\ Len(scaled.out) = Len(data)
        /\ (\A k \in DOMAIN data : data[k] = NaN \/ data[k] <= 0)
              => \A k \in DOMAIN scaled.out : scaled.out[k] = 0

\* The workers in flight without the one in slot k.
Others(k) == SubSeq(workers, 1, k - 1) \o SubSeq(workers, k + 1, Len(workers))

\* The terminal signal of the oldest worker in flight is handled.
OldestDelivered == \E partial \in BOOLEAN : Deliver(1, partial)

\* A terminal signal is the last signal of its worker: at most one, and
\* every progress report before it.
TerminalIsLast ==
    \A k \in DOMAIN workers :
        \A i \in DOMAIN workers[k].signals :
            workers[k].signals[i] \in TerminalSignals => i = Len(workers[k].signals)

\* A worker leaves only when its terminal signal is handled, by the
\* handler of that signal.
DeliveredStep ==
    Len(workers') < Len(workers) =>
        \E k \in DOMAIN workers :
            /\ workers' = Others(k)
            /\ Ended(workers[k])
            /\ last' = workers[k].signals[Len(workers[k].signals)]

C24_BatchStep ==
    /\ (last' = "accepted") =>
          IF save_counter = BatchSize - 1
          THEN /\ save_counter' = 0
               /\ fs' = save_rankings(fs, output_file, rankings', jpg_files, comments')
          ELSE /\ save_counter' = save_counter + 1
               /\ fs' = fs
    /\ (last' = "rejected") => (save_counter' = save_counter /\ fs' = fs)
    /\ (last' = "save") => save_counter' = 0
    /\ (last' \notin {"accepted", "save", "start"}) => save_counter' = save_counter

\* C24: rank submissions are saved in batches of 10: an accepted
\* submission saves exactly when it is the 10th accepted one since the
\* batch counter was last reset (by a batch save or a manual save), and the
\* counter is 0 afterwards; a rejected submission does not advance the
\* counter, and the counter stays within 0..9 between operations.
C24_BatchesOfTen ==
    /\ [](save_counter \in 0..(BatchSize - 1))
    /\ [][C24_BatchStep]_vars

C24_Witness ==
    /\ last = "accepted"
    /\ save_counter = 0
    /\ comments # EmptyComments
    /\ ShowsMap(fs, output_file, rankings)
    /\ \E id \in DOMAIN rankings : id # CurrentFile(Self)

\* C25: whenever a navigation request comes with a pending rank input, the
\* cursor moves only if the submission was successful: after a rejected
\* submission the displayed identifier is unchanged, on every navigation
\* path (submit-and-next, previous, next, first, skip-to-next-unranked,
\* rank keys with auto-submit, table clicks).
C25_RejectedStaysStep == (last' = "rejected") => current_index' = current_index

C25_RejectedStays == [][C25_RejectedStaysStep]_vars

AllRanked(rk) == \A k \in DOMAIN jpg_files : jpg_files[k] \in DOMAIN rk

\* C26: skip-to-next-unranked reports "All images have been ranked!"
\* (find_next_unranked gave -1) and leaves the cursor in place only when
\* every catalog identifier has a rank, and otherwise moves the cursor to
\* an unranked identifier.
C26_SkipToUnranked ==
    phase = "running" =>
        LET s == skip_to_next_unranked(Self)
            reported == find_next_unranked(jpg_files, rankings, current_index + 1) = -1
        IN  /\ reported => (AllRanked(rankings) /\ s.current_index = current_index)
            /\ ~AllRanked(rankings) =>
                  (~reported /\ CurrentFile(s) \notin DOMAIN rankings)

\* The workers of this step's start: in flight after it and not before.
Started == {k \in DOMAIN workers' : \A j \in DOMAIN workers : workers'[k] # workers[j]}

\* The names whose failed fetch this step reports.
Failed ==
    IF last' = "error"
    THEN {workers[k].file : k \in {j \in DOMAIN workers : workers' = Others(j)}}
    ELSE {}

\* No worker is started for a name with a record.
C27_NoFetchForCached ==
    \A k \in Started : workers'[k].file \notin DOMAIN secondary_images

\* Records are never removed or replaced.
C27_RecordsKept ==
    \A id \in DOMAIN secondary_images :
        /\ id \in DOMAIN secondary_images'
        /\ secondary_images'[id] = secondary_images[id]

\* After a failed fetch the name has no record.
C27_FailedHasNoRecord == \A id \in Failed : id \notin DOMAIN secondary_images'

\* C27: a successful fetch caches its output path for the rest of the
\* session: no fetch worker is ever started for an identifier that has a
\* record in the cache, records are never removed or replaced, and after a
\* failed fetch the identifier has no record.
C27_CacheStep == C27_NoFetchForCached /\ C27_RecordsKept /\ C27_FailedHasNoRecord

C27_CacheForSession == [][C27_CacheStep]_vars

\* C28: after any sequence of navigation, submission, clear, comment and
\* fetch operations on a non-empty catalog the cursor is a valid catalog
\* index, 0 <= current_index < number of identifiers; previous at the
\* first identifier and next at the last one leave it unchanged, and the
\* handlers of the fetch leave it as it is.
C28_CursorValid ==
    /\ 0 <= current_index
    /\ current_index < Len(jpg_files)
    /\ phase = "running" =>
          /\ current_index = 0 => go_previous(Self) = Self
          /\ current_index = Len(jpg_files) - 1 => go_next(Self) = Self
          /\ go_previous(Self).current_index \in 0..(Len(jpg_files) - 1)
          /\ go_next(Self).current_index \in 0..(Len(jpg_files) - 1)
          /\ skip_to_next_unranked(Self).current_index \in 0..(Len(jpg_files) - 1)
          /\ toggle_secondary_view(Self).current_index = current_index
          /\ on_secondary_download_success(Self, NoPath).current_index = current_index
          /\ show_secondary_error(Self).current_index = current_index

C28_Witness ==
    /\ current_index = Len(jpg_files) - 1
    /\ last = "other"
    /\ AllRanked(rankings)
    /\ comments # EmptyComments

\* C29: the downloading flag is true exactly while a fetch worker is in
\* flight, and a step clears it only by delivering the terminal outcome of
\* the one worker in flight: an error reported for a disabled feature or for
\* a name without coordinates, and the outcome of another worker, leave it
\* set.
C29_FlagWhileInFlight ==
    phase = "running" => (downloading <=> workers # <<>>)

C29_ClearedByOwnOutcomeStep ==
    (downloading /\ ~downloading' /\ phase' = "running")
        => /\ last' \in {"finished", "error"}
           /\ Len(workers) = 1
           /\ workers' = <<>>

C29_DownloadingFlag ==
    []C29_FlagWhileInFlight /\ [][C29_ClearedByOwnOutcomeStep]_vars

\* C30: every rank in the rank map is a value of the configured set (the
\* values of the "ranks" section, or the integers of the default range
\* when the section is empty), after every step of a session: a
\* submission, a clear, a close and a start that loads a rankings file
\* written or edited outside the session.
C30_AllConfigured == \A id \in DOMAIN rankings : rankings[id] \in ValidValues

C30_RanksConfigured == [][C30_AllConfigured']_vars

====
